---- MODULE Spec2Model ----
(***************************************************************************)
(* Model of the LotL controller (v3): the per-platform request lock        *)
(* (LotlController.withLock) and the interaction driven under it           *)
(* (LotlController.send): pre-state snapshot, input, submit, completion    *)
(* polling, stability polling, extraction and validation.                  *)
(*                                                                         *)
(* Strings are sequences of atoms (words and the blank " "), so that trim, *)
(* equality and substring tests are computed, not assumed.  Every adapter  *)
(* call is a read of an external page: its result is drawn from a set.     *)
(***************************************************************************)
EXTENDS Integers, Sequences, FiniteSets, TLC

\* ------------------------------------------------------------------ bounds
NumReq == 3
NumFair == 2
MaxTime == 1800000
MaxArrival == 0
MaxTurns == 6
NumConn == 2
MaxDisconnects == 1
MaxCleanLen == 3

\* ------------------------------------------------------- program constants
LOCK_TIMEOUT_MS_TEXT == 420000
LOCK_TIMEOUT_MS_IMAGES == 900000
MaxResponsePolls == 180
MaxStabilityPolls == 60
StableTarget == 3

Req == 1..NumReq
\* the requests of the queue checked for progress
FairReq == 1..(IF NumFair < NumReq THEN NumFair ELSE NumReq)
ConnReq == 1..(IF NumConn < NumReq THEN NumConn ELSE NumReq)
Platforms == {"aistudio", "chatgpt"}

\* ------------------------------------------------------------- text values
\* null as returned by an adapter or by extractFallback
Null == <<"null">>
\* a variable that has not been assigned yet
NotYet == <<"unset">>

IsBlank(a) == a \in {" ", "\n"}

RECURSIVE TrimLeft(_)
TrimLeft(s) == IF s = <<>> THEN <<>>
               ELSE IF IsBlank(Head(s)) THEN TrimLeft(Tail(s)) ELSE s

RECURSIVE TrimRight(_)
TrimRight(s) == IF s = <<>> THEN <<>>
                ELSE IF IsBlank(s[Len(s)]) THEN TrimRight(SubSeq(s, 1, Len(s) - 1)) ELSE s

\* String.prototype.trim
Trim(s) == TrimRight(TrimLeft(s))

\* String.prototype.includes
Includes(s, t) == \E i \in 1..(Len(s) - Len(t) + 1) : SubSeq(s, i, i + Len(t) - 1) = t

\* x is falsy as a JS string-or-null value
Falsy(x) == x = Null \/ x = <<>>

\* String(x || '').trim()
StrTrim(x) == IF Falsy(x) THEN <<>> ELSE Trim(x)

\* position just after the run of blanks that starts at i
RECURSIVE SkipBlanks(_, _)
SkipBlanks(s, i) == IF i <= Len(s) /\ IsBlank(s[i]) THEN SkipBlanks(s, i + 1) ELSE i

\* the longest run of atoms other than a line break starting at i
RECURSIVE LineFrom(_, _)
LineFrom(s, i) == IF i <= Len(s) /\ s[i] # "\n" THEN <<s[i]>> \o LineFrom(s, i + 1) ELSE <<>>

\* /Reply\s+with\s+exactly:\s*([^\r\n]+)\s*/i matched at position i: the
\* capture group, or Null when the expression does not match there
MatchExactAt(s, i) ==
    IF ~(i <= Len(s) /\ s[i] = "Reply") THEN Null
    ELSE LET j == SkipBlanks(s, i + 1) IN
         IF ~(j > i + 1 /\ j <= Len(s) /\ s[j] = "with") THEN Null
         ELSE LET k == SkipBlanks(s, j + 1) IN
              IF ~(k > j + 1 /\ k <= Len(s) /\ s[k] = "exactly:") THEN Null
              ELSE LET e == SkipBlanks(s, k + 1) IN
                   IF e <= Len(s) THEN LineFrom(s, e)
                   \* only blanks follow: \s* gives atoms back until the group
                   \* can start on one that is not a line break (the last " ")
                   ELSE IF \E b \in (k + 1)..Len(s) : s[b] = " "
                        THEN LET b == CHOOSE c \in (k + 1)..Len(s) :
                                        s[c] = " " /\ \A d \in (c + 1)..Len(s) : s[d] # " "
                             IN LineFrom(s, b)
                        ELSE Null

RECURSIVE FirstMatchFrom(_, _)
FirstMatchFrom(s, i) == IF i > Len(s) THEN Null
                        ELSE IF MatchExactAt(s, i) # Null THEN MatchExactAt(s, i)
                        ELSE FirstMatchFrom(s, i + 1)

\* parseExpectedExactToken: the trimmed capture group, or Null
parseExpectedExactToken(prompt) ==
    LET m == FirstMatchFrom(prompt, 1) IN IF m = Null THEN Null ELSE Trim(m)

\* ------------------------------------------------------- cleanExtractedLines
\* raw.split('\n')
RECURSIVE SplitLines(_)
SplitLines(s) ==
    IF \A i \in DOMAIN s : s[i] # "\n" THEN <<s>>
    ELSE LET i == CHOOSE k \in DOMAIN s : s[k] = "\n" /\ \A j \in 1..(k - 1) : s[j] # "\n"
         IN <<SubSeq(s, 1, i - 1)>> \o SplitLines(SubSeq(s, i + 1, Len(s)))

\* artifactPatterns.some(p => p.test(line)) on a trimmed line: a line that is
\* one of the UI words (edit, model, ...; case is ignored), or that contains
\* one of the phrases matched anywhere
IsArtifact(line) == line \in {<<"edit">>, <<"Model">>} \/ Includes(line, <<"Expand">>)

\* the lines trimmed, the empty ones and the artifacts dropped
RECURSIVE KeptLines(_)
KeptLines(ls) ==
    IF ls = <<>> THEN <<>>
    ELSE LET l == Trim(Head(ls))
         IN IF l = <<>> \/ IsArtifact(l) THEN KeptLines(Tail(ls))
            ELSE <<l>> \o KeptLines(Tail(ls))

\* adjacent identical lines are collapsed
RECURSIVE Dedupe(_)
Dedupe(ls) ==
    IF Len(ls) <= 1 THEN ls
    ELSE LET d == Dedupe(SubSeq(ls, 1, Len(ls) - 1))
         IN IF d[Len(d)] = ls[Len(ls)] THEN d ELSE Append(d, ls[Len(ls)])

\* deduped.join('\n')
RECURSIVE JoinLines(_)
JoinLines(ls) ==
    IF ls = <<>> THEN <<>>
    ELSE IF Len(ls) = 1 THEN ls[1]
    ELSE ls[1] \o <<"\n">> \o JoinLines(Tail(ls))

\* if (result.startsWith('Model')) result = result.substring(5).trim()
StripRole(s) == IF s # <<>> /\ Head(s) = "Model" THEN Trim(Tail(s)) ELSE s

NotCitation(a) == a # "[1]"

\* result.replace(/\[\d+\]/g, '')
StripCitations(s) == SelectSeq(s, NotCitation)

\* cleanExtractedLines(text): the steps in the order of the code
cleanExtractedLines(text) ==
    LET raw == IF Falsy(text) THEN <<>> ELSE text
        deduped == Dedupe(KeptLines(SplitLines(raw)))
        result == Trim(JoinLines(deduped))
    IN Trim(StripCitations(StripRole(result)))

\* /Expand to view model thoughts/i.test(s) || /^Thoughts\b/i.test(s)
LooksLikeThoughtsOnly(s) == Includes(s, <<"Expand">>) \/ (s # <<>> /\ s[1] = "Thoughts")

\* mutant: one new turn is enough everywhere
requiredTurnDelta_One(platform) == 1

\* requiredTurnDelta
requiredTurnDelta(platform) == IF platform = "aistudio" THEN 2 ELSE 1

\* typeof adapter.uploadImages === 'function'
HasUploadImages(platform) == platform = "aistudio"

\* ------------------------------------------------------------ input domains
Prompts == { <<"Hi">>,
             <<"Reply", " ", "with", " ", "exactly:", " ", "OK">>,
             <<"Reply", " ", "with", " ", "exactly:", " ">> }

\* what extractResponse / extractFallback may hand back from the page
Texts == { Null, <<>>, <<"OK">>, <<" ", "OK">>, <<"Hi", " ", "OK">>, <<"Hi">>,
           <<"Thoughts", " ", "Hi">>, <<"Hi", " ", "Expand">> }

TurnVals == 0..MaxTurns

ExactOK == <<"Reply", " ", "with", " ", "exactly:", " ", "OK">>

\* the atoms of the raw texts handed to cleanExtractedLines: a word, a UI
\* word, the role label, a citation marker, a thoughts banner, blanks
CleanAtoms == {"a", "edit", "Model", "[1]", "Expand", " ", "\n"}

RECURSIVE SeqsUpTo(_, _)
SeqsUpTo(S, n) ==
    IF n = 0 THEN {<<>>}
    ELSE LET shorter == SeqsUpTo(S, n - 1)
         IN shorter \cup {Append(t, a) : t \in shorter, a \in S}

CleanTexts == SeqsUpTo(CleanAtoms, MaxCleanLen)

\* a reply while it streams and when it is complete
StreamTexts == {<<"Hello">>, <<"Hello", " ", "there">>}

\* the requests made and the reads an interaction may get from its page: the
\* full domain, and the narrow one used when several requests queue on one key
FullWorld == [requests |-> [platform : Platforms, prompt : Prompts, hasImages : BOOLEAN],
              live |-> BOOLEAN, reachable |-> BOOLEAN, tabOpen |-> BOOLEAN,
              blocked |-> BOOLEAN, inputSet |-> BOOLEAN, clicked |-> BOOLEAN,
              turns0 |-> TurnVals, turns |-> TurnVals, busy |-> BOOLEAN,
              pre |-> Texts, samples |-> {Null, <<>>, <<"OK">>} \cup StreamTexts,
              texts |-> Texts \cup StreamTexts,
              shown |-> {{}, {"Sign in", "captcha"}},
              notices |-> {{}, {"Welcome"}, {"Sign in"}, {"Welcome", "Something went wrong"}}]
QueueWorld == [requests |-> {[platform |-> "aistudio", prompt |-> <<"Hi">>, hasImages |-> FALSE],
                             [platform |-> "aistudio", prompt |-> ExactOK, hasImages |-> TRUE]},
               live |-> {TRUE}, reachable |-> {TRUE}, tabOpen |-> {TRUE},
               blocked |-> {FALSE}, inputSet |-> {TRUE}, clicked |-> {TRUE},
               turns0 |-> {0}, turns |-> {2}, busy |-> {FALSE},
               pre |-> {<<"OK">>}, samples |-> {<<"OK">>}, texts |-> {Null, <<"OK">>},
               shown |-> {{}}, notices |-> {{}}]

FairWorld == [QueueWorld EXCEPT !.inputSet = BOOLEAN]

\* requests of both platforms and of two agents, over tabs that may have been
\* closed or may no longer answer
KeyWorld == [QueueWorld EXCEPT
                !.requests =
                    {[platform |-> q.platform, prompt |-> q.prompt,
                      hasImages |-> q.hasImages, sessionId |-> "agent-1"] :
                     q \in @ \cup {[platform |-> "chatgpt", prompt |-> <<"Hi">>,
                                    hasImages |-> FALSE]}}
                    \cup {[platform |-> "aistudio", prompt |-> <<"Hi">>,
                           hasImages |-> FALSE, sessionId |-> "agent-2"]},
                !.live = BOOLEAN, !.tabOpen = BOOLEAN]

\* both platforms, over a browser whose debug port may not answer
ConnWorld == [QueueWorld EXCEPT
                !.requests = @ \cup {[platform |-> "chatgpt", prompt |-> <<"Hi">>,
                                      hasImages |-> FALSE]},
                !.reachable = BOOLEAN]

\* what extractResponse of a platform's adapter returns from a page showing one
\* of texts: null or a trimmed text, which on aistudio is never the empty one
Primary(platform, texts) ==
    {t \in texts : t = Null \/ (Trim(t) = t /\ (platform = "aistudio" => t # <<>>))}

\* ------------------------------------------------------------------- errors
Pending == [kind |-> "pending", val |-> <<>>]
Ok(v) == [kind |-> "ok", val |-> v]
Err(e) == [kind |-> "error", val |-> <<e>>]

\* ---------------------------------------------------------------- variables
VARIABLES
    now,            \* the clock, in ms
    browser,        \* this.browser is set
    pages,          \* this.pages[platform]: 0 when unset, else the number of the
                    \* browser session the cached page belongs to
    opened,         \* number of browser sessions puppeteer.connect has opened
    disconnects,    \* number of 'disconnected' events so far
    page,           \* the page a call holds (0: none), by the number of its session
    since,          \* the value of disconnects when the call entered ensureConnection
    probing,        \* the call is a probePlatform call, not a send
    adapterOk,      \* what the last of setInput and clickRun returned (TRUE before)
    blockers,       \* the patterns the early guard found in the page ({} before it)
    shows,          \* the known notices in the body of the page the final extraction read
    hint,           \* the notice the empty-reply probe returned ("unset" before it)
    health,         \* what the title() health check of this call gave: "none" when
                    \* it was not made, "ok" or "failed"
    locks,          \* this._locks[platform]: the request whose run it follows (0: settled at construction)
    pc,             \* position of each request
    request,        \* the arguments of send(): platform, prompt, hasImages
    prior,          \* withLock's prior: the tail the request was chained after
    timer,          \* the timeout timer of withLock: "unset", "armed", "fired", or
                    \* "moot" once the race was settled by run (its firing is then a no-op)
    deadline,       \* when the timer is due
    run,            \* settlement of run = prior.then(fn, fn)
    caller,         \* settlement of Promise.race([run, timeout])
    callOrder,      \* per platform, the requests in the order withLock was called
    startOrder,     \* per platform, the requests in the order fn began
    turnsBefore, preSendExtract, expectedExact,
    pageBefore,     \* what extractResponse yields when turnsBefore is read, before
                    \* the input is set (send reads it on aistudio only)
    pollI, gotResponse,
    generating,     \* the busy flag read by the poll that set gotResponse
    stableI, lastText, stableCount,
    response,
    sawDelta,       \* some completion poll read turnsNow >= turnsBefore + delta
    sawBusy,        \* some completion poll read that turn count with the busy flag true
    sawReady,       \* some completion poll read that turn count with the busy flag false
    runLen,         \* length of the run of identical non-empty samples that ends
                    \* with the last sample of the stability loop
    scen,           \* how many samples of ScenarioSamples the reads of the stability
                    \* loop and of the final extraction have followed (-1: they left it)
    primaryFinal,   \* what the final extractResponse returned
    fallbackCalls,  \* number of extractFallback invocations
    fallbackStale,  \* what the forced fallback of the staleness check returned
                    \* ("unset" while the check has not fired)
    fallbackHit,    \* some extractFallback result equalled or contained expectedExact
    thrown,         \* the exception on its way out of fn ("none": there is none)
    connectLock,    \* this._connectLock: "resolved", "rejected", or "pending"
                    \* while the connection attempt it stands for is in flight
    ready           \* the handler of GET /ready: where it is, whether the query
                    \* asked for chatgpt, and the status it answered (0: none yet)

lockVars == <<now, locks, prior, timer, deadline, run, caller, callOrder, startOrder, thrown>>
connVars == <<browser, pages, connectLock, opened, disconnects, page, since, probing, health>>
pollVars == <<pollI, gotResponse, generating, sawDelta, sawBusy, sawReady>>
stabVars == <<stableI, lastText, stableCount, runLen, scen>>
snapVars == <<turnsBefore, preSendExtract, expectedExact, pageBefore>>
extrVars == <<response, primaryFinal, fallbackCalls, fallbackHit, fallbackStale>>
callVars == <<adapterOk, blockers, shows, hint>>
httpVars == <<ready>>
vars == <<pc, request, lockVars, connVars, callVars, httpVars, pollVars, stabVars, snapVars, extrVars>>

NoRequest == [platform |-> "aistudio", prompt |-> <<>>, hasImages |-> FALSE]

\* positions at which fn is between its start and its settlement
RunningPcs == {"ensure", "awaitLock", "connecting", "findTab", "version", "probeEval", "front", "blockers", "scroll", "turnsBefore", "preSend",
               "upload", "setInput", "clickRun", "poll", "stability", "extract",
               "fallback", "stale", "exact", "probe", "return", "throw"}

Running(r) == pc[r] \in RunningPcs

\* the controller as constructed, but for the text held by the calls
InitOther ==
    /\ now = 0
    /\ browser = FALSE
    /\ pages = [p \in Platforms |-> 0]
    /\ opened = 0
    /\ disconnects = 0
    /\ page = [r \in Req |-> 0]
    /\ since = [r \in Req |-> 0]
    /\ probing = [r \in Req |-> FALSE]
    /\ health = [r \in Req |-> "none"]
    /\ adapterOk = [r \in Req |-> TRUE]
    /\ blockers = [r \in Req |-> {}]
    /\ shows = [r \in Req |-> {}]
    /\ hint = [r \in Req |-> "unset"]
    /\ ready = [at |-> "idle", chatgptRequested |-> FALSE, status |-> 0]
    /\ connectLock = "resolved"
    /\ locks = [p \in Platforms |-> 0]
    /\ pc = [r \in Req |-> "idle"]
    /\ request = [r \in Req |-> NoRequest]
    /\ prior = [r \in Req |-> 0]
    /\ timer = [r \in Req |-> "unset"]
    /\ deadline = [r \in Req |-> 0]
    /\ run = [r \in Req |-> Pending]
    /\ caller = [r \in Req |-> Pending]
    /\ callOrder = [p \in Platforms |-> <<>>]
    /\ startOrder = [p \in Platforms |-> <<>>]
    /\ turnsBefore = [r \in Req |-> 0]
    /\ preSendExtract = [r \in Req |-> <<>>]
    /\ expectedExact = [r \in Req |-> Null]
    /\ pageBefore = [r \in Req |-> NotYet]
    /\ pollI = [r \in Req |-> 0]
    /\ gotResponse = [r \in Req |-> FALSE]
    /\ generating = [r \in Req |-> FALSE]
    /\ stableI = [r \in Req |-> 0]
    /\ lastText = [r \in Req |-> <<>>]
    /\ stableCount = [r \in Req |-> 0]
    /\ sawDelta = [r \in Req |-> FALSE]
    /\ sawBusy = [r \in Req |-> FALSE]
    /\ sawReady = [r \in Req |-> FALSE]
    /\ runLen = [r \in Req |-> 0]
    /\ scen = [r \in Req |-> 0]
    /\ primaryFinal = [r \in Req |-> NotYet]
    /\ fallbackCalls = [r \in Req |-> 0]
    /\ fallbackHit = [r \in Req |-> FALSE]
    /\ fallbackStale = [r \in Req |-> NotYet]
    /\ thrown = [r \in Req |-> "none"]

Init == InitOther /\ response = [r \in Req |-> Null]

\* ------------------------------------------------------------------ withLock
\* mutant: every request gets the text timeout
lockTimeoutMs_TextOnly(platform, hasImages) == LOCK_TIMEOUT_MS_TEXT

\* lockTimeoutMs of send
lockTimeoutMs(platform, hasImages) ==
    IF platform = "aistudio" /\ hasImages THEN LOCK_TIMEOUT_MS_IMAGES ELSE LOCK_TIMEOUT_MS_TEXT

\* ms of withLock: Number(timeoutMs || LOCK_TIMEOUT_MS_TEXT)
LockMs(timeoutMs) == IF timeoutMs = 0 THEN LOCK_TIMEOUT_MS_TEXT ELSE timeoutMs

\* mutant: fn is chained after nothing
PriorOf_Unchained(platform) == 0

\* const prior = this._locks[platform] || Promise.resolve()
PriorOf(platform) == locks[platform]

\* Promise.race([run, timeout]) when run settles with o: the race takes o
\* unless it is already decided
RaceOnRun(c, o) == IF c.kind = "pending" THEN o ELSE c

\* mutant: return run, without the race
RaceOnTimeout_NoRace(c) == c

\* Promise.race([run, timeout]) when the timer rejects: the race takes the
\* lock timeout unless it is already decided
RaceOnTimeout(c) == IF c.kind = "pending" THEN Err("LockTimeout") ELSE c

\* mutant: fn is called at once instead of being chained after prior
TailSettled_NoWait(q) == TRUE

\* mutant: the tail follows the race, so it settles when the timer fires
TailSettled_FollowsRace(q) == IF q = 0 THEN TRUE ELSE caller[q].kind # "pending"

\* mutant: the tail is run itself, so a rejected run is never a settled tail
\* for the handlers chained after it
TailSettled_OnlyFulfilled(q) == IF q = 0 THEN TRUE ELSE run[q].kind = "ok"

\* the promise this._locks[platform] = run.catch(() => undefined) of request q
\* is settled (0 is the Promise.resolve() of the constructor)
TailSettled(q) == IF q = 0 THEN TRUE ELSE run[q].kind # "pending"

\* mutant: one chain for all the requests
LockKey_Shared(req) == "aistudio"

\* the key of this._locks a request is queued on: the platform the endpoint
\* passes to send; nothing else of the request body reaches withLock
LockKey(req) == req.platform

\* send() up to the return of withLock: the timer is armed, fn is chained
\* after the current tail and the tail now follows this request's run
Send(r, w) ==
    /\ pc[r] = "idle"
    /\ \A q \in Req : q < r => pc[q] # "idle"
    /\ now <= MaxArrival
    /\ \E req \in w.requests :
         /\ request' = [request EXCEPT ![r] = req]
         /\ timer' = [timer EXCEPT ![r] = "armed"]
         /\ deadline' = [deadline EXCEPT ![r] =
                now + LockMs(lockTimeoutMs(req.platform, req.hasImages))]
         /\ prior' = [prior EXCEPT ![r] = PriorOf(LockKey(req))]
         /\ locks' = [locks EXCEPT ![LockKey(req)] = r]
         /\ callOrder' = [callOrder EXCEPT ![req.platform] = Append(@, r)]
    /\ pc' = [pc EXCEPT ![r] = "queued"]
    /\ UNCHANGED <<now, run, caller, startOrder, thrown, connVars, callVars, httpVars, pollVars, stabVars, snapVars, extrVars>>

\* run = prior.then(fn, fn) settles with outcome o, and the race settles with
\* it unless the timer already decided it; the frame of fn is gone
Settle(r, o) ==
    /\ pc' = [pc EXCEPT ![r] = "settled"]
    /\ run' = [run EXCEPT ![r] = o]
    /\ caller' = [caller EXCEPT ![r] = RaceOnRun(@, o)]
    /\ timer' = [timer EXCEPT ![r] = IF @ = "armed" THEN "moot" ELSE @]
    /\ deadline' = [deadline EXCEPT ![r] = 0]
    /\ thrown' = [thrown EXCEPT ![r] = "none"]
    /\ turnsBefore' = [turnsBefore EXCEPT ![r] = 0]
    /\ preSendExtract' = [preSendExtract EXCEPT ![r] = <<>>]
    /\ expectedExact' = [expectedExact EXCEPT ![r] = Null]
    /\ pageBefore' = [pageBefore EXCEPT ![r] = NotYet]
    /\ pollI' = [pollI EXCEPT ![r] = 0]
    /\ gotResponse' = [gotResponse EXCEPT ![r] = FALSE]
    /\ generating' = [generating EXCEPT ![r] = FALSE]
    /\ stableI' = [stableI EXCEPT ![r] = 0]
    /\ lastText' = [lastText EXCEPT ![r] = <<>>]
    /\ stableCount' = [stableCount EXCEPT ![r] = 0]
    /\ response' = [response EXCEPT ![r] = Null]
    /\ sawDelta' = [sawDelta EXCEPT ![r] = FALSE]
    /\ sawBusy' = [sawBusy EXCEPT ![r] = FALSE]
    /\ sawReady' = [sawReady EXCEPT ![r] = FALSE]
    /\ runLen' = [runLen EXCEPT ![r] = 0]
    /\ scen' = [scen EXCEPT ![r] = 0]
    /\ primaryFinal' = [primaryFinal EXCEPT ![r] = NotYet]
    /\ fallbackCalls' = [fallbackCalls EXCEPT ![r] = 0]
    /\ fallbackHit' = [fallbackHit EXCEPT ![r] = FALSE]
    /\ fallbackStale' = [fallbackStale EXCEPT ![r] = NotYet]
    /\ page' = [page EXCEPT ![r] = 0]
    /\ since' = [since EXCEPT ![r] = 0]
    /\ probing' = [probing EXCEPT ![r] = FALSE]
    /\ health' = [health EXCEPT ![r] = "none"]
    /\ adapterOk' = [adapterOk EXCEPT ![r] = TRUE]
    /\ blockers' = [blockers EXCEPT ![r] = {}]
    /\ shows' = [shows EXCEPT ![r] = {}]
    /\ hint' = [hint EXCEPT ![r] = "unset"]
    /\ UNCHANGED <<request, now, locks, prior, callOrder, startOrder,
                   browser, pages, connectLock, opened, disconnects, httpVars>>

\* mutant: prior.then(fn) without the rejection handler, so a task chained
\* after a rejected one is skipped and rejects with the same failure
StartTask_Poisoned(r) ==
    /\ pc[r] = "queued"
    /\ TailSettled(prior[r])
    /\ IF prior[r] # 0 /\ run[IF prior[r] = 0 THEN r ELSE prior[r]].kind = "error"
       THEN Settle(r, run[prior[r]])
       ELSE /\ pc' = [pc EXCEPT ![r] = "ensure"]
            /\ startOrder' = [startOrder EXCEPT ![request[r].platform] = Append(@, r)]
            /\ UNCHANGED <<request, now, locks, prior, timer, deadline, run, caller,
                           callOrder, thrown, connVars, callVars, httpVars, pollVars, stabVars, snapVars,
                           extrVars>>

\* prior.then(fn, fn): fn begins once the promise it was chained after settles
StartTask(r) ==
    /\ pc[r] = "queued"
    /\ TailSettled(prior[r])
    /\ pc' = [pc EXCEPT ![r] = "ensure"]
    /\ startOrder' = [startOrder EXCEPT ![request[r].platform] = Append(@, r)]
    /\ UNCHANGED <<request, now, locks, prior, timer, deadline, run, caller, callOrder,
                   thrown, connVars, callVars, httpVars, pollVars, stabVars, snapVars, extrVars>>

\* mutant: the timer also takes a task that has not begun off the chain
TimerFire_Cancels(r) ==
    /\ timer[r] = "armed"
    /\ now >= deadline[r]
    /\ timer' = [timer EXCEPT ![r] = "fired"]
    /\ deadline' = [deadline EXCEPT ![r] = 0]
    /\ caller' = [caller EXCEPT ![r] = RaceOnTimeout(@)]
    /\ pc' = [pc EXCEPT ![r] = IF @ = "queued" THEN "settled" ELSE @]
    /\ run' = [run EXCEPT ![r] = IF pc[r] = "queued" THEN Err("LockTimeout") ELSE @]
    /\ UNCHANGED <<request, now, locks, prior, callOrder, startOrder,
                   thrown, connVars, callVars, httpVars, pollVars, stabVars, snapVars, extrVars>>

\* the timer of withLock fires: the race rejects with the lock timeout if it
\* is still undecided; fn and the chain are not touched
TimerFire(r) ==
    /\ timer[r] = "armed"
    /\ now >= deadline[r]
    /\ timer' = [timer EXCEPT ![r] = "fired"]
    /\ deadline' = [deadline EXCEPT ![r] = 0]
    /\ caller' = [caller EXCEPT ![r] = RaceOnTimeout(@)]
    /\ UNCHANGED <<pc, request, now, locks, prior, run, callOrder, startOrder,
                   thrown, connVars, callVars, httpVars, pollVars, stabVars, snapVars, extrVars>>

\* time passes until the next timer is due; a timer that is due fires before
\* the clock moves on
Advance ==
    /\ \E r \in Req : timer[r] = "armed"
    /\ \A r \in Req : timer[r] = "armed" => deadline[r] > now
    /\ LET due == {deadline[r] : r \in {q \in Req : timer[q] = "armed"}}
       IN now' = CHOOSE t \in due : \A u \in due : t <= u
    /\ now' <= MaxTime
    /\ UNCHANGED <<pc, request, locks, prior, timer, deadline, run, caller, callOrder,
                   startOrder, thrown, connVars, callVars, httpVars, pollVars, stabVars, snapVars, extrVars>>

\* ---------------------------------------------------------------------- send
\* what a step of fn leaves alone in the lock
lockKeep == <<request, now, locks, prior, callOrder, startOrder>>

\* fn goes on at l
Goto(r, l) == pc' = [pc EXCEPT ![r] = l] /\ UNCHANGED <<run, caller, timer, deadline, thrown>>

\* fn throws e: the exception leaves fn
Raise(r, e) ==
    /\ pc' = [pc EXCEPT ![r] = "throw"]
    /\ thrown' = [thrown EXCEPT ![r] = e]
    /\ UNCHANGED <<run, caller, timer, deadline>>

Platform(r) == request[r].platform

\* -------------------------------------------------------- ensureConnection
\* the page held by call r belongs to a browser session that is gone
Detached(r) == page[r] # 0 /\ ~(browser /\ page[r] = opened)

\* mutant: connect() starts its attempt without the _connectLock chain
AttemptInFlight_Unchained(lock) == FALSE

\* the callback connect() chains to _connectLock has to wait: the promise it
\* is chained after is the connection attempt of another call
AttemptInFlight(lock) == lock = "pending"

\* page.title() of the cached page h resolves: the tab answers, which a page
\* of a session that is gone cannot
TitleResolves(h, live) == browser /\ h = opened /\ live

\* mutant: the cached page is returned without waiting for its title()
Healthy_Unchecked(h, live) == h # 0

\* ensureConnection returns the cached page h: pages[platform] is set and the
\* health check did not throw
Healthy(h, live) == h # 0 /\ TitleResolves(h, live)

\* ensureConnection up to its first wait: the cached page if its health check
\* succeeds; otherwise the cached page is dropped and connect() either goes
\* on to the tabs of the browser that is there, or chains a connection
\* attempt to _connectLock: behind the attempt in flight, or as the attempt,
\* or, behind a rejected _connectLock, as a promise rejected like it
EnsureConnection(r, w) ==
    /\ pc[r] = "ensure"
    /\ since' = [since EXCEPT ![r] = disconnects]
    /\ \E live \in w.live :
         LET p == Platform(r) IN
         /\ health' = [health EXCEPT ![r] =
                IF pages[p] = 0 THEN "none"
                ELSE IF TitleResolves(pages[p], live) THEN "ok" ELSE "failed"]
         /\ IF Healthy(pages[p], live)
            THEN /\ Goto(r, "front")
                 /\ page' = [page EXCEPT ![r] = pages[p]]
                 /\ UNCHANGED <<pages, connectLock>>
            ELSE /\ pages' = [pages EXCEPT ![p] = 0]
                 /\ IF browser
                    THEN /\ Goto(r, "findTab")
                         /\ page' = [page EXCEPT ![r] = opened]
                         /\ UNCHANGED connectLock
                    ELSE /\ UNCHANGED page
                         /\ IF AttemptInFlight(connectLock)
                            THEN Goto(r, "awaitLock") /\ UNCHANGED connectLock
                            ELSE IF connectLock = "rejected"
                            THEN Raise(r, "ConnectError") /\ UNCHANGED connectLock
                            ELSE Goto(r, "connecting") /\ connectLock' = "pending"
    /\ UNCHANGED <<browser, opened, disconnects, probing>>
    /\ UNCHANGED <<lockKeep, callVars, httpVars, pollVars, stabVars, snapVars, extrVars>>

\* the calls whose await of _connectLock ends when the attempt settles
Awaiting(r) == {q \in Req : q = r \/ pc[q] = "awaitLock"}

\* the connection attempt of call r settles: puppeteer.connect gives the
\* browser, or the attempt rejects.  The callbacks chained behind it find the
\* browser and return, or are rejected with it, in the same turn, and every
\* awaiting call goes on to the tabs of the new browser or throws
ConnectDone(r, w) ==
    /\ pc[r] = "connecting"
    /\ \E reachable \in w.reachable :
         IF reachable
         THEN /\ browser' = TRUE
              /\ opened' = opened + 1
              /\ connectLock' = "resolved"
              /\ pc' = [q \in Req |-> IF q \in Awaiting(r) THEN "findTab" ELSE pc[q]]
              /\ page' = [q \in Req |-> IF q \in Awaiting(r) THEN opened + 1 ELSE page[q]]
              /\ UNCHANGED thrown
         ELSE /\ connectLock' = "rejected"
              /\ pc' = [q \in Req |-> IF q \in Awaiting(r) THEN "throw" ELSE pc[q]]
              /\ thrown' = [q \in Req |-> IF q \in Awaiting(r) THEN "ConnectError" ELSE thrown[q]]
              /\ UNCHANGED <<browser, opened, page>>
    /\ UNCHANGED <<run, caller, timer, deadline, pages, disconnects, since, probing, health>>
    /\ UNCHANGED <<lockKeep, callVars, httpVars, pollVars, stabVars, snapVars, extrVars>>

\* mutant: the page is stored before the lookup is tested
CacheAfterMiss_Stored(old, pg) == pg

\* this.pages[platform] when no target matches: connect() throws before the
\* assignment
CacheAfterMiss(old, pg) == old

\* the tab is looked up by URL among the targets of the browser and cached.
\* When that browser has disconnected meanwhile, the lookup either rejects or
\* still yields the page object of the target, which is then cached
FindTab(r, w) ==
    /\ pc[r] = "findTab"
    /\ \E tabOpen \in w.tabOpen, rejects \in BOOLEAN :
         IF Detached(r) /\ rejects
         THEN Raise(r, "PageError") /\ UNCHANGED pages
         ELSE IF ~tabOpen
         THEN /\ Raise(r, "TabNotFound")
              /\ pages' = [pages EXCEPT ![Platform(r)] = CacheAfterMiss(@, page[r])]
         ELSE /\ Goto(r, "front")
              /\ pages' = [pages EXCEPT ![Platform(r)] = page[r]]
    /\ UNCHANGED <<browser, connectLock, opened, disconnects, page, since, probing, health>>
    /\ UNCHANGED <<lockKeep, callVars, httpVars, pollVars, stabVars, snapVars, extrVars>>

\* mutant: the cached pages outlive the browser
ClearedPages_Kept(pgs) == pgs

\* this.pages = {}
ClearedPages(pgs) == [p \in Platforms |-> 0]

\* the 'disconnected' handler of the browser: this.browser = null and
\* this.pages = {}
Disconnect ==
    /\ browser
    /\ disconnects < MaxDisconnects
    /\ browser' = FALSE
    /\ pages' = ClearedPages(pages)
    /\ disconnects' = disconnects + 1
    /\ UNCHANGED <<pc, request, lockVars, connectLock, opened, page, since, probing, health,
                   callVars, httpVars,
                   pollVars, stabVars, snapVars, extrVars>>

\* page.bringToFront(); nothing of ensureConnection's own frame is left
BringToFront(r) ==
    /\ pc[r] = "front"
    /\ ~Detached(r)
    /\ Goto(r, IF probing[r] THEN "probeEval"
                ELSE IF Platform(r) = "aistudio" THEN "blockers" ELSE "scroll")
    /\ health' = [health EXCEPT ![r] = "none"]
    /\ UNCHANGED <<browser, pages, connectLock, opened, disconnects, page, since, probing>>
    /\ UNCHANGED <<lockKeep, callVars, httpVars, pollVars, stabVars, snapVars, extrVars>>

\* the notices the early guard looks for in the body of the page
EarlyPatterns == {"Sign in", "Verify it's you", "unusual traffic", "captcha", "Something went wrong"}

\* patterns.filter(p => p.test(hay))
EarlyBlockers(body) == body \cap EarlyPatterns

\* mutant: the guard lets every page through
HasBlockers_Never(found) == FALSE

\* Array.isArray(blockers) && blockers.length > 0
HasBlockers(found) == found # {}

\* the early blocker guard (aistudio only)
Blockers(r, w) ==
    /\ pc[r] = "blockers"
    /\ ~Detached(r)
    /\ \E body \in w.notices :
         /\ blockers' = [blockers EXCEPT ![r] = EarlyBlockers(body)]
         /\ IF HasBlockers(EarlyBlockers(body)) THEN Raise(r, "Blocked") ELSE Goto(r, "scroll")
    /\ UNCHANGED <<lockKeep, adapterOk, shows, hint, httpVars, connVars, pollVars, stabVars,
                   snapVars, extrVars>>

\* scroll to bottom, sleep(300)
Scroll(r) ==
    /\ pc[r] = "scroll"
    /\ ~Detached(r)
    /\ Goto(r, "turnsBefore")
    /\ UNCHANGED <<lockKeep, callVars, httpVars, connVars, pollVars, stabVars, snapVars, extrVars>>

\* mutant: the prompt is submitted without having been typed
AfterSnapshot_NoInput(r) == "clickRun"

\* where fn goes once preSendExtract and expectedExact are set
AfterSnapshot(r) ==
    IF request[r].hasImages /\ HasUploadImages(Platform(r)) THEN "upload" ELSE "setInput"

\* turnsBefore = getTurnCount(); off aistudio preSendExtract = '' and
\* expectedExact = null follow without a further read
TurnsBefore(r, w) ==
    /\ pc[r] = "turnsBefore"
    /\ ~Detached(r)
    /\ \E t \in w.turns0 : turnsBefore' = [turnsBefore EXCEPT ![r] = t]
    /\ IF Platform(r) = "aistudio"
       THEN /\ Goto(r, "preSend")
            /\ UNCHANGED <<preSendExtract, expectedExact, pageBefore>>
       ELSE /\ Goto(r, AfterSnapshot(r))
            /\ preSendExtract' = [preSendExtract EXCEPT ![r] = <<>>]
            /\ expectedExact' = [expectedExact EXCEPT ![r] = Null]
            /\ \E t \in Primary(Platform(r), w.pre) :
                 pageBefore' = [pageBefore EXCEPT ![r] = t]
    /\ UNCHANGED <<lockKeep, callVars, httpVars, connVars, pollVars, stabVars, extrVars>>

\* preSendExtract = String(extractResponse() || '').trim() and
\* expectedExact = parseExpectedExactToken(prompt), on aistudio
PreSend(r, w) ==
    /\ pc[r] = "preSend"
    /\ ~Detached(r)
    /\ \E t \in Primary(Platform(r), w.pre) :
         /\ preSendExtract' = [preSendExtract EXCEPT ![r] = StrTrim(t)]
         /\ pageBefore' = [pageBefore EXCEPT ![r] = t]
    /\ expectedExact' = [expectedExact EXCEPT ![r] = parseExpectedExactToken(request[r].prompt)]
    /\ Goto(r, AfterSnapshot(r))
    /\ UNCHANGED <<lockKeep, callVars, httpVars, connVars, pollVars, stabVars, turnsBefore, extrVars>>

\* adapter.uploadImages(page, images)
Upload(r) ==
    /\ pc[r] = "upload"
    /\ ~Detached(r)
    /\ Goto(r, "setInput")
    /\ UNCHANGED <<lockKeep, callVars, httpVars, connVars, pollVars, stabVars, snapVars, extrVars>>

\* mutant: the returned value is not looked at
Accepted_Always(ok) == TRUE

\* the test of what setInput or clickRun returned: if (!inputSet), if (!clicked)
Accepted(ok) == ok

\* adapter.setInput(page, prompt), sleep(300)
SetInput(r, w) ==
    /\ pc[r] = "setInput"
    /\ ~Detached(r)
    /\ \E inputSet \in w.inputSet :
         /\ adapterOk' = [adapterOk EXCEPT ![r] = inputSet]
         /\ IF Accepted(inputSet) THEN Goto(r, "clickRun") ELSE Raise(r, "InputError")
    /\ UNCHANGED <<lockKeep, blockers, shows, hint, httpVars, connVars, pollVars, stabVars, snapVars, extrVars>>

\* adapter.clickRun(page)
ClickRun(r, w) ==
    /\ pc[r] = "clickRun"
    /\ ~Detached(r)
    /\ \E clicked \in w.clicked :
         /\ adapterOk' = [adapterOk EXCEPT ![r] = clicked]
         /\ IF Accepted(clicked) THEN Goto(r, "poll") ELSE Raise(r, "SubmitError")
    /\ UNCHANGED <<lockKeep, blockers, shows, hint, httpVars, connVars, pollVars, stabVars, snapVars, extrVars>>

\* mutant: the turn count must pass the required one
ResponseReady_Late(tNow, tBefore, delta, gen) == tNow > tBefore + delta /\ ~gen

\* mutant: the turn-count test alone
ResponseReady_TurnsOnly(tNow, tBefore, delta, gen) == tNow >= tBefore + delta

\* the condition of the completion loop
ResponseReady(tNow, tBefore, delta, gen) == tNow >= tBefore + delta /\ ~gen

\* mutant: one poll more than the ceiling
PollsLeft_OneMore(i) == i <= MaxResponsePolls

\* the loop condition i < 180 of the completion loop
PollsLeft(i) == i < MaxResponsePolls

\* one iteration of the completion loop: sleep(1000), getTurnCount,
\* isGenerating; the loop that ends without a response throws
PollCompletion(r, w) ==
    /\ pc[r] = "poll"
    /\ ~Detached(r)
    /\ \E tNow \in w.turns, gen \in w.busy :
         LET reached == tNow >= turnsBefore[r] + (IF Platform(r) = "aistudio" THEN 2 ELSE 1)
         IN
         /\ sawDelta' = [sawDelta EXCEPT ![r] = @ \/ reached]
         /\ sawBusy' = [sawBusy EXCEPT ![r] = @ \/ (reached /\ gen)]
         /\ sawReady' = [sawReady EXCEPT ![r] = @ \/ (reached /\ ~gen)]
         /\ IF ResponseReady(tNow, turnsBefore[r], requiredTurnDelta(Platform(r)), gen)
            THEN /\ gotResponse' = [gotResponse EXCEPT ![r] = TRUE]
                 /\ generating' = [generating EXCEPT ![r] = gen]
                 /\ UNCHANGED pollI
                 /\ Goto(r, "stability")
            ELSE /\ pollI' = [pollI EXCEPT ![r] = @ + 1]
                 /\ UNCHANGED <<gotResponse, generating>>
                 /\ IF PollsLeft(pollI[r] + 1)
                    THEN Goto(r, "poll")
                    ELSE Raise(r, "ResponseTimeout")
    /\ UNCHANGED <<lockKeep, callVars, httpVars, connVars, stabVars, snapVars, extrVars>>

\* the samples of the scenario: a text twice, then a longer one four times
ScenarioSamples ==
    << <<"Hello">>, <<"Hello">>, <<"Hello", " ", "there">>, <<"Hello", " ", "there">>,
       <<"Hello", " ", "there">>, <<"Hello", " ", "there">> >>

\* the scenario after one more read: it goes on if the read is its next sample
\* (after its last sample, if the read is that sample again)
ScenarioNext(k, text) ==
    IF k >= 0 /\ k <= Len(ScenarioSamples)
         /\ text = ScenarioSamples[IF k < Len(ScenarioSamples) THEN k + 1 ELSE Len(ScenarioSamples)]
    THEN k + 1 ELSE -1

\* mutant: the stream is settled one repetition late
IsStable_Late(count) == count > StableTarget

\* mutant: the stream is settled one repetition early
IsStable_Early(count) == count + 1 >= StableTarget

\* stableCount >= 3
IsStable(count) == count >= StableTarget

\* mutant: the stability loop gives up one poll early
StabilityLeft_OneShort(i) == i + 1 < MaxStabilityPolls

\* the loop condition i < 60 of the stability loop
StabilityLeft(i) == i < MaxStabilityPolls

\* mutant: a sample equal to the one before counts even when it is empty
Repeats_EmptyCounts(currentText, last) == currentText = last

\* currentText === lastText && currentText && currentText.length > 0
Repeats(currentText, last) == currentText = last /\ ~Falsy(currentText)

\* one iteration of the stability loop: sleep(1000), extractResponse.  The
\* first iteration follows the completion loop, whose counter and turnsBefore
\* are not read again.
StabilityPoll(r, w) ==
    /\ pc[r] = "stability"
    /\ ~Detached(r)
    /\ \E currentText \in Primary(Platform(r), w.samples) :
         /\ runLen' = [runLen EXCEPT ![r] =
                IF Falsy(currentText) THEN 0
                ELSE IF currentText = lastText[r] THEN @ + 1 ELSE 1]
         /\ scen' = [scen EXCEPT ![r] = ScenarioNext(@, currentText)]
         /\ IF Repeats(currentText, lastText[r])
            THEN /\ stableCount' = [stableCount EXCEPT ![r] = @ + 1]
                 /\ UNCHANGED lastText
                 /\ IF IsStable(stableCount[r] + 1)
                    THEN /\ UNCHANGED stableI
                         /\ Goto(r, "extract")
                    ELSE /\ stableI' = [stableI EXCEPT ![r] = @ + 1]
                         /\ Goto(r, IF StabilityLeft(stableI[r] + 1) THEN "stability" ELSE "extract")
            ELSE /\ stableCount' = [stableCount EXCEPT ![r] = 0]
                 /\ lastText' = [lastText EXCEPT ![r] = currentText]
                 /\ stableI' = [stableI EXCEPT ![r] = @ + 1]
                 /\ Goto(r, IF StabilityLeft(stableI[r] + 1) THEN "stability" ELSE "extract")
    /\ pollI' = [pollI EXCEPT ![r] = 0]
    /\ turnsBefore' = [turnsBefore EXCEPT ![r] = 0]
    /\ UNCHANGED <<lockKeep, callVars, httpVars, connVars, gotResponse, generating, sawDelta, sawBusy, sawReady,
                   preSendExtract, expectedExact, pageBefore, extrVars>>

\* mutant: the fallback looks into the page of any platform
extractFallback_AnyPlatform(platform, found) == found

\* extractFallback as send sees it: null off aistudio; on aistudio null, the
\* expected token or a cleaned (trimmed, non-empty) text found in the page
extractFallback(platform, found) == IF platform # "aistudio" THEN Null ELSE found

FallbackFinds(w) ==
    {t \in w.texts : t = Null \/ (t # <<>> /\ Trim(t) = t /\ ~Includes(t, <<"Expand">>))}

\* what extractFallback can give call r: it catches the failures of its page
\* calls and returns null, which is all a page of a lost session gives
FallbackSees(r, w) == IF Detached(r) THEN {Null} ELSE FallbackFinds(w)

\* text equals or contains the expected token
Hits(text, expected) == ~Falsy(expected) /\ (text = expected \/ Includes(text, expected))

\* the empty-reply test: response is empty, so the page is probed
AfterExact(platform, resp) ==
    IF platform = "aistudio" /\ (Falsy(resp) \/ Trim(resp) = <<>>) THEN "probe" ELSE "return"

\* mutant: the anchored fallback is asked for whenever a token is expected
AfterStale_Always(platform, expected, resp) ==
    IF platform = "aistudio" /\ ~Falsy(expected) THEN "exact" ELSE AfterExact(platform, resp)

\* mutant: no exact-token test
AfterStale_Unchecked(platform, expected, resp) == AfterExact(platform, resp)

\* the exact-token test: got !== expectedExact asks for one more fallback
AfterStale(platform, expected, resp) ==
    IF platform = "aistudio" /\ ~Falsy(expected) /\ StrTrim(resp) # expected
    THEN "exact" ELSE AfterExact(platform, resp)

\* mutant: no staleness test
AfterFallback_Unchecked(platform, pre, expected, resp) == AfterStale(platform, expected, resp)

\* the staleness test: response equals the non-empty pre-send extraction
AfterFallback(platform, pre, expected, resp) ==
    IF platform = "aistudio" /\ StrTrim(resp) # <<>> /\ pre # <<>> /\ StrTrim(resp) = pre
    THEN "stale" ELSE AfterStale(platform, expected, resp)

\* mutant: thoughts-only text is disqualified on every platform
AfterExtract_AnyPlatform(platform, pre, expected, resp) ==
    IF Falsy(resp) \/ StrTrim(resp) = <<>> \/ LooksLikeThoughtsOnly(StrTrim(resp))
    THEN "fallback" ELSE AfterFallback(platform, pre, expected, resp)

\* the test on the final extraction: empty, or thoughts-only on aistudio
AfterExtract(platform, pre, expected, resp) ==
    IF Falsy(resp) \/ StrTrim(resp) = <<>>
       \/ (platform = "aistudio" /\ LooksLikeThoughtsOnly(StrTrim(resp)))
    THEN "fallback" ELSE AfterFallback(platform, pre, expected, resp)

NoteFallback(r, fb) ==
    /\ fallbackCalls' = [fallbackCalls EXCEPT ![r] = @ + 1]
    /\ fallbackHit' = [fallbackHit EXCEPT ![r] = @ \/ Hits(StrTrim(fb), expectedExact[r])]

\* response = extractResponse() after the waits; the loop variables are dead
\* from here on and are put back to their initial values
Extract(r, w) ==
    /\ pc[r] = "extract"
    /\ ~Detached(r)
    /\ \E t \in Primary(Platform(r), w.texts) :
         /\ response' = [response EXCEPT ![r] = t]
         /\ primaryFinal' = [primaryFinal EXCEPT ![r] = t]
         /\ scen' = [scen EXCEPT ![r] = ScenarioNext(@, t)]
         /\ Goto(r, AfterExtract(Platform(r), preSendExtract[r], expectedExact[r], t))
    /\ \E shown \in w.shown : shows' = [shows EXCEPT ![r] = shown]
    /\ stableI' = [stableI EXCEPT ![r] = 0]
    /\ stableCount' = [stableCount EXCEPT ![r] = 0]
    /\ lastText' = [lastText EXCEPT ![r] = <<>>]
    /\ runLen' = [runLen EXCEPT ![r] = 0]
    /\ UNCHANGED <<lockKeep, adapterOk, blockers, hint, httpVars, connVars, pollVars, snapVars, fallbackCalls, fallbackHit,
                   fallbackStale>>

\* the fallback for an empty or thoughts-only extraction
Fallback(r, w) ==
    /\ pc[r] = "fallback"
    /\ \E found \in FallbackSees(r, w) :
         LET fallback == extractFallback(Platform(r), found)
             resp == IF ~Falsy(fallback) /\ Trim(fallback) # <<>> THEN fallback ELSE response[r]
         IN /\ response' = [response EXCEPT ![r] = resp]
            /\ NoteFallback(r, fallback)
            /\ Goto(r, AfterFallback(Platform(r), preSendExtract[r], expectedExact[r], resp))
    /\ UNCHANGED <<lockKeep, callVars, httpVars, connVars, pollVars, stabVars, snapVars, primaryFinal,
                   fallbackStale>>

\* mutant: a stale text the fallback could not better is dropped
StaleReply_Dropped(resp, found) ==
    IF StrTrim(found) # <<>> /\ StrTrim(found) # StrTrim(resp) THEN found ELSE Null

\* if (fb && fb !== gotNow) response = fallbackStale
StaleReply(resp, found) ==
    IF StrTrim(found) # <<>> /\ StrTrim(found) # StrTrim(resp) THEN found ELSE resp

\* the forced fallback of the staleness check
Stale(r, w) ==
    /\ pc[r] = "stale"
    /\ \E found \in FallbackSees(r, w) :
         LET resp == StaleReply(response[r], extractFallback(Platform(r), found))
         IN /\ response' = [response EXCEPT ![r] = resp]
            /\ fallbackStale' = [fallbackStale EXCEPT ![r] = extractFallback(Platform(r), found)]
            /\ NoteFallback(r, extractFallback(Platform(r), found))
            /\ Goto(r, AfterStale(Platform(r), expectedExact[r], resp))
    /\ UNCHANGED <<lockKeep, callVars, httpVars, connVars, pollVars, stabVars, snapVars, primaryFinal>>

\* mutant: the text the fallback found is kept
ExactReply_Found(expected, fb) == fb

\* response = expectedExact once the fallback has given the token
ExactReply(expected, fb) == expected

\* exact-token mode: the anchored fallback decides between the token and the
\* expectation mismatch
Exact(r, w) ==
    /\ pc[r] = "exact"
    /\ \E found \in FallbackSees(r, w) :
         LET fallback2 == extractFallback(Platform(r), found)
             fb == StrTrim(fallback2)
         IN /\ NoteFallback(r, fallback2)
            /\ IF fb = expectedExact[r] \/ Includes(fb, expectedExact[r])
               THEN /\ response' = [response EXCEPT ![r] = ExactReply(expectedExact[r], fb)]
                    /\ Goto(r, AfterExact(Platform(r), ExactReply(expectedExact[r], fb)))
               ELSE /\ UNCHANGED response
                    /\ Raise(r, "ExactMismatch")
    /\ UNCHANGED <<lockKeep, callVars, httpVars, connVars, pollVars, stabVars, snapVars, primaryFinal,
                   fallbackStale>>

\* the notices the empty-reply probe knows, in the order it looks for them
KnownBlockers == <<"Verify it's you", "Sign in", "unusual traffic", "captcha">>

\* mutant: the probe finds nothing
FirstKnown_None(body) == "null"

\* for (const k of known) if (hay.includes(k)) return k; return null
FirstKnown(body) ==
    IF \E i \in DOMAIN KnownBlockers : KnownBlockers[i] \in body
    THEN KnownBlockers[CHOOSE i \in DOMAIN KnownBlockers :
                         /\ KnownBlockers[i] \in body
                         /\ \A j \in 1..(i - 1) : KnownBlockers[j] \notin body]
    ELSE "null"

\* the probe for a known blocker behind an empty reply; the error message
\* carries hint
Probe(r, w) ==
    /\ pc[r] = "probe"
    /\ ~Detached(r)
    /\ hint' = [hint EXCEPT ![r] = FirstKnown(shows[r])]
    /\ IF FirstKnown(shows[r]) # "null" THEN Raise(r, "EmptyBlocked") ELSE Goto(r, "return")
    /\ UNCHANGED <<lockKeep, adapterOk, blockers, shows, httpVars, connVars, pollVars, stabVars, snapVars, extrVars>>

\* return response: run fulfils with it
Return(r) ==
    /\ pc[r] = "return"
    /\ Settle(r, Ok(response[r]))

\* the exception rejects run
Rejects(r) ==
    /\ pc[r] = "throw"
    /\ Settle(r, Err(thrown[r]))

\* an awaited page or adapter call rejects and the exception leaves fn
\* (extractFallback catches its own)
ThrowingPcs == {"probeEval", "front", "blockers", "scroll", "turnsBefore", "preSend", "upload",
                "setInput", "clickRun", "poll", "stability", "extract", "probe"}

PageThrows(r) ==
    /\ pc[r] \in ThrowingPcs
    /\ Raise(r, "PageError")
    /\ UNCHANGED <<lockKeep, callVars, httpVars, connVars, pollVars, stabVars, snapVars, extrVars>>

\* ------------------------------------------------------------- probePlatform
\* probePlatform(platform) is called: it takes no lock and arms no timer
probePlatform(r, platform) ==
    /\ pc[r] = "idle"
    /\ \A q \in Req : q < r => pc[q] # "idle"
    /\ request' = [request EXCEPT ![r] = [NoRequest EXCEPT !.platform = platform]]
    /\ pc' = [pc EXCEPT ![r] = "version"]
    /\ probing' = [probing EXCEPT ![r] = TRUE]
    /\ UNCHANGED <<lockVars, browser, pages, connectLock, opened, disconnects, page, since, health,
                   callVars,
                   pollVars, stabVars, snapVars, extrVars>>

\* a probe made on its own, for one of the platforms
ProbeCall(r, w) ==
    /\ \E req \in w.requests : probePlatform(r, req.platform)
    /\ UNCHANGED httpVars

\* the debug port is asked for its version before ensureConnection
ProbeVersion(r, w) ==
    /\ pc[r] = "version"
    /\ \E reachable \in w.reachable :
         IF reachable THEN Goto(r, "ensure") ELSE Raise(r, "ConnectError")
    /\ UNCHANGED <<lockKeep, callVars, httpVars, connVars, pollVars, stabVars, snapVars, extrVars>>

\* mutant: the blockers are reported but do not count
ProbeResult_BlockedOk(urlOk, hasInput, blocked) ==
    IF urlOk /\ hasInput THEN <<"ok">> ELSE <<"not", "ok">>

\* the ok of the selector probe
ProbeResult(urlOk, hasInput, blocked) ==
    IF urlOk /\ hasInput /\ ~blocked THEN <<"ok">> ELSE <<"not", "ok">>

\* the page part of what probePlatform returns: urlOk, hasInput, blockers
ProbePage(urlOk, hasInput, blocked) ==
    (IF urlOk THEN <<"urlOk">> ELSE <<>>) \o (IF hasInput THEN <<"hasInput">> ELSE <<>>)
    \o (IF blocked THEN <<"blockers">> ELSE <<>>)

\* page.evaluate of the selector probe, and the result returned
ProbeEval(r, w) ==
    /\ pc[r] = "probeEval"
    /\ ~Detached(r)
    /\ \E urlOk \in w.tabOpen, hasInput \in w.inputSet, blocked \in w.blocked :
         LET listed == Platform(r) = "aistudio" /\ blocked
         IN response' = [response EXCEPT ![r] =
                ProbeResult(urlOk, hasInput, listed) \o ProbePage(urlOk, hasInput, listed)]
    /\ Goto(r, "return")
    /\ UNCHANGED <<primaryFinal, fallbackCalls, fallbackHit, fallbackStale>>
    /\ UNCHANGED <<lockKeep, callVars, httpVars, connVars, pollVars, stabVars, snapVars>>

ProbeStep(r, w) ==
    \/ ProbeVersion(r, w)
    \/ ProbeEval(r, w)

\* ------------------------------------------------------------ specifications
Step(r, w) ==
    \/ EnsureConnection(r, w)
    \/ ConnectDone(r, w)
    \/ FindTab(r, w)
    \/ BringToFront(r)
    \/ Blockers(r, w)
    \/ Scroll(r)
    \/ TurnsBefore(r, w)
    \/ PreSend(r, w)
    \/ Upload(r)
    \/ SetInput(r, w)
    \/ ClickRun(r, w)
    \/ PollCompletion(r, w)
    \/ StabilityPoll(r, w)
    \/ Extract(r, w)
    \/ Fallback(r, w)
    \/ Stale(r, w)
    \/ Exact(r, w)
    \/ Probe(r, w)
    \/ Return(r)
    \/ Rejects(r)
    \/ PageThrows(r)

\* several requests on one key, their lock chain and their timers
Next ==
    \/ \E r \in Req : Send(r, QueueWorld)
    \/ \E r \in Req : StartTask(r)
    \/ \E r \in Req : TimerFire(r)
    \/ Advance
    \/ \E r \in Req : Step(r, QueueWorld)

Spec == Init /\ [][Next]_vars

\* one interaction over a page that may show anything
SendNext ==
    \/ Send(1, FullWorld)
    \/ StartTask(1)
    \/ Step(1, FullWorld)

SendSpec == Init /\ [][SendNext]_vars

\* the queue when every awaited call returns and every promise reaction that
\* is ready runs: a task that can begin begins, a task that can step steps
Fairness ==
    \A r \in FairReq : WF_vars(StartTask(r)) /\ WF_vars(Step(r, FairWorld))

\* a queue whose interactions leave by success, by an adapter that cannot set
\* the input, by a page call that throws, by a missing exact reply, and whose
\* callers may be answered by the timer
FairNext ==
    \/ \E r \in FairReq : Send(r, FairWorld)
    \/ \E r \in FairReq : StartTask(r)
    \/ \E r \in FairReq : TimerFire(r)
    \/ Advance
    \/ \E r \in FairReq : Step(r, FairWorld)

FairSpec == Init /\ [][FairNext]_vars /\ Fairness

\* sends and readiness probes of both platforms over a browser that may
\* disconnect at any moment.  send and probePlatform enter the same
\* ensureConnection: call 1 is a send, of either platform, and the calls
\* that overlap it or follow it are probes
ConnNext ==
    \/ Send(1, ConnWorld)
    \/ \E r \in ConnReq \ {1} : ProbeCall(r, ConnWorld)
    \/ \E r \in ConnReq : StartTask(r)
    \/ \E r \in ConnReq : Step(r, ConnWorld)
    \/ \E r \in ConnReq : ProbeStep(r, ConnWorld)
    \/ Disconnect

ConnSpec == Init /\ [][ConnNext]_vars

\* probePlatform returned an object whose ok is true
ProbeOk(o) == o.kind = "ok" /\ Head(o.val) = "ok"

\* GET /ready is requested: the handler calls probePlatform('aistudio')
ReadyCall ==
    /\ ready.at = "idle"
    /\ \E chatgptRequested \in BOOLEAN :
         ready' = [at |-> "aistudio", chatgptRequested |-> chatgptRequested, status |-> 0]
    /\ probePlatform(1, "aistudio")

\* the aistudio probe has settled: the handler calls probePlatform('chatgpt')
\* when the query asks for it (call 2), takes { ok: true, skipped: true }
\* otherwise and answers; a probe that threw is answered from the catch
ReadyAistudio ==
    /\ ready.at = "aistudio"
    /\ caller[1].kind # "pending"
    /\ IF caller[1].kind = "ok" /\ ready.chatgptRequested
       THEN /\ ready' = [ready EXCEPT !.at = "chatgpt"]
            /\ probePlatform(2, "chatgpt")
       ELSE /\ ready' = [ready EXCEPT !.at = "done",
                                        !.status = IF ProbeOk(caller[1]) THEN 200 ELSE 503]
            /\ UNCHANGED <<pc, request, lockVars, connVars, callVars, pollVars, stabVars,
                           snapVars, extrVars>>

\* the chatgpt probe has settled: the handler answers
ReadyChatgpt ==
    /\ ready.at = "chatgpt"
    /\ caller[2].kind # "pending"
    /\ ready' = [ready EXCEPT !.at = "done",
                               !.status = IF ProbeOk(caller[1]) /\ ProbeOk(caller[2])
                                          THEN 200 ELSE 503]
    /\ UNCHANGED <<pc, request, lockVars, connVars, callVars, pollVars, stabVars,
                   snapVars, extrVars>>

\* what a probe goes through
ReadyStep(r, w) ==
    \/ ProbeVersion(r, w)
    \/ EnsureConnection(r, w)
    \/ ConnectDone(r, w)
    \/ FindTab(r, w)
    \/ BringToFront(r)
    \/ ProbeEval(r, w)
    \/ Return(r)
    \/ Rejects(r)
    \/ PageThrows(r)

\* GET /ready over a browser and tabs in any condition
ReadyWorld == [FullWorld EXCEPT !.requests = {NoRequest}]

ReadyNext ==
    \/ ReadyCall
    \/ ReadyAistudio
    \/ ReadyChatgpt
    \/ \E r \in ConnReq : ReadyStep(r, ReadyWorld)

ReadySpec == Init /\ [][ReadyNext]_vars

\* sends of both platforms and of two agents, each queued on the lock of its
\* platform
KeyNext ==
    \/ \E r \in ConnReq : Send(r, KeyWorld)
    \/ \E r \in ConnReq : StartTask(r)
    \/ \E r \in ConnReq : Step(r, KeyWorld)

KeySpec == Init /\ [][KeyNext]_vars

\* cleanExtractedLines applied to a raw text, and then to what it returned;
\* lastText keeps what the application was given
Clean ==
    /\ pc[1] \in {"idle", "cleaned"}
    /\ lastText' = [lastText EXCEPT ![1] = response[1]]
    /\ response' = [response EXCEPT ![1] = cleanExtractedLines(response[1])]
    /\ pc' = [pc EXCEPT ![1] = IF pc[1] = "idle" THEN "cleaned" ELSE "recleaned"]
    /\ UNCHANGED <<request, lockVars, connVars, callVars, httpVars, pollVars, snapVars,
                   stableI, stableCount, runLen, scen,
                   primaryFinal, fallbackCalls, fallbackHit, fallbackStale>>

CleanInit ==
    /\ InitOther
    /\ \E t \in CleanTexts : response = [r \in Req |-> IF r = 1 THEN t ELSE Null]

CleanSpec == CleanInit /\ [][Clean]_vars

\* ------------------------------------------------------------------- helpers
Called(r) == pc[r] # "idle"
Started(r) == \E i \in DOMAIN startOrder[Platform(r)] : startOrder[Platform(r)][i] = r
IsPrefix(s, t) == Len(s) <= Len(t) /\ SubSeq(t, 1, Len(s)) = s
\* r was chained directly before q on the same key
Before(r, q) == Called(q) /\ prior[q] = r

\* ------------------------------------------------------------------------ C1
\* C1: on one platform key at most one interaction task is between its start
\* and its settlement, and a request that has begun (so also one that sets
\* its input) finds every request called before it on that key settled.
C1_OneActivePerKey ==
    /\ \A p \in Platforms :
         Cardinality({r \in Req : Called(r) /\ Platform(r) = p /\ Running(r)}) <= 1
    /\ \A r, q \in Req :
         (r < q /\ Called(r) /\ Called(q) /\ Platform(r) = Platform(q)
            /\ pc[q] \notin {"idle", "queued"}) => pc[r] = "settled"

\* two requests in flight on one key: one is setting its input, the other waits
C1_Witness ==
    \E r, q \in Req : Before(r, q) /\ pc[r] = "setInput" /\ pc[q] = "queued"

\* ------------------------------------------------------------------------ C2
\* C2: when the timer fires before the task settles the caller has the lock
\* timeout, the task is not cancelled (it is still where it was and its run
\* never settles with the timeout), and the request chained after it has not
\* begun.
C2_TimeoutKeepsTail ==
    \A r \in Req :
        /\ run[r] # Err("LockTimeout")
        /\ (timer[r] = "fired" /\ run[r].kind = "pending") =>
              /\ caller[r] = Err("LockTimeout")
              /\ pc[r] \in RunningPcs \cup {"queued"}
              /\ \A q \in Req : Before(r, q) => pc[q] = "queued"

\* a task whose caller timed out is still polling while its successor waits
C2_Witness ==
    \E r, q \in Req : /\ Before(r, q) /\ pc[q] = "queued"
                      /\ timer[r] = "fired" /\ caller[r] = Err("LockTimeout")
                      /\ pc[r] = "stability"

\* ------------------------------------------------------------------------ C3
\* C3: stability polling and the final extraction (and all that follows them)
\* are reached only after some completion poll of the interaction read
\* turnsNow >= turnsBefore + delta, with delta 2 on aistudio and 1 elsewhere,
\* turnsBefore being the count read before the input was set.
AfterCompletionPcs == {"stability", "extract", "fallback", "stale", "exact", "probe", "return"}

C3_DeltaBeforeStability ==
    \A r \in Req : pc[r] \in AfterCompletionPcs => sawDelta[r]

\* an aistudio interaction is in its stability polling
C3_Witness == pc[1] = "stability" /\ Platform(1) = "aistudio" /\ sawDelta[1]

\* ------------------------------------------------------------------------ C4
\* C4: the completion wait is never satisfied by a poll that read the
\* generating flag as true.
C4_NotSatisfiedWhileBusy ==
    \A r \in Req : gotResponse[r] => ~generating[r]

\* a completion wait was satisfied, on a platform other than aistudio
C4_Witness == gotResponse[1] /\ Platform(1) = "chatgpt" /\ pc[1] = "stability"

\* ------------------------------------------------------------------------ C5
\* C5: a task chained after a task that failed is not skipped and does not
\* take over the failure: it begins only once the failed task has settled, and
\* if it has settled then it ran, and a task that has not run has no outcome.
C5_FailureDoesNotPoison ==
    \A q \in Req :
        /\ (run[q].kind # "pending") => Started(q)
        /\ \A r \in Req :
              (Before(r, q) /\ Started(q)) => run[r].kind # "pending"

\* a task ran to success behind a task that failed
C5_Witness ==
    \E r, q \in Req : /\ Before(r, q) /\ run[r].kind = "error"
                      /\ Started(q) /\ run[q].kind = "ok"

C7_StartInCallOrder ==
    \A p \in Platforms : IsPrefix(startOrder[p], callOrder[p])

\* three tasks have begun in turn, the first failed and the second timed out
C7_Witness ==
    \E p \in Platforms :
        /\ Len(startOrder[p]) >= 3
        /\ run[startOrder[p][1]].kind = "error"
        /\ timer[startOrder[p][2]] = "fired"

\* ------------------------------------------------------------------------ C8
\* C8: the caller of withLock is answered by the time the timer is due, which
\* is timeoutMs after the call: with the outcome of the task if the task
\* settled first, with the lock timeout when the timer fires otherwise, and an
\* answer once given never changes.
C8_Answered(r) ==
    /\ (Called(r) /\ caller[r].kind = "pending") =>
          /\ timer[r] = "armed"
          /\ now <= deadline[r]
          /\ deadline[r] <= MaxArrival + LockMs(lockTimeoutMs(Platform(r), request[r].hasImages))
          /\ run[r].kind = "pending"
    /\ (timer[r] = "fired") => caller[r].kind # "pending"
    /\ (caller[r].kind # "pending" /\ caller[r] # Err("LockTimeout")) => caller[r] = run[r]
    /\ (caller[r] = Err("LockTimeout")) => timer[r] = "fired"

C8_CallerSettlesInTime ==
    /\ [](\A r \in Req : C8_Answered(r))
    /\ [][\A r \in Req : caller[r].kind # "pending" => caller'[r] = caller[r]]_vars

\* a task fulfilled after its caller had the lock timeout
C8_Witness ==
    \E r \in Req : caller[r] = Err("LockTimeout") /\ run[r].kind = "ok"

\* ------------------------------------------------------------------------ C9
\* the interaction is about to return what the final extraction gave, and the
\* extraction gave the same before the input was set
ReturnsUnchangedText(r) ==
    /\ pc[r] = "return"
    /\ primaryFinal[r] = pageBefore[r]
    /\ response[r] = primaryFinal[r]

\* C9 as stated: on every platform, an interaction that returns the string
\* the primary extraction gave both before submission and after the waits
\* has invoked the fallback extraction.
C9_FallbackBeforeStaleReturn_AllPlatforms ==
    \A r \in Req : ReturnsUnchangedText(r) => fallbackCalls[r] >= 1

\* C9, amended: on aistudio, an interaction that returns the string the
\* primary extraction gave both before submission and after the waits has
\* invoked the fallback extraction, whatever the string.
C9_FallbackBeforeStaleReturn ==
    \A r \in Req :
        (Platform(r) = "aistudio" /\ ReturnsUnchangedText(r)) => fallbackCalls[r] >= 1

\* an aistudio interaction returns the non-empty text it saw before sending
C9_Witness ==
    /\ Platform(1) = "aistudio" /\ ReturnsUnchangedText(1)
    /\ primaryFinal[1] = <<"Hi">> /\ fallbackCalls[1] >= 1

\* ----------------------------------------------------------------------- C10
\* no extraction of the interaction gave a text equal to or containing the
\* expected reply
NoTierHit(r) ==
    /\ primaryFinal[r] # NotYet
    /\ ~Falsy(expectedExact[r])
    /\ ~Hits(StrTrim(primaryFinal[r]), expectedExact[r])
    /\ ~fallbackHit[r]

\* C10: with an expected exact reply that neither the primary extraction nor
\* any fallback produced, the interaction does not return, and when it ends
\* it ends with the expectation mismatch.
C10_MismatchNeverReturned ==
    \A r \in Req :
        NoTierHit(r) => /\ pc[r] \in {"fallback", "stale", "exact", "throw"}
                        /\ pc[r] = "throw" => thrown[r] = "ExactMismatch"

\* the expected reply was nowhere and the interaction fails with the mismatch
C10_Witness ==
    NoTierHit(1) /\ pc[1] = "throw" /\ thrown[1] = "ExactMismatch" /\ fallbackCalls[1] >= 2

\* ----------------------------------------------------------------------- C11
\* C11: an interaction with an expected exact reply that returns, returns
\* exactly that reply; so also when the final extraction differed from it and
\* the fallback gave a text equal to or containing it.
C11_ReturnsTheLiteral ==
    \A r \in Req :
        (pc[r] = "return" /\ ~Falsy(expectedExact[r])) => response[r] = expectedExact[r]

\* the final extraction held the reply inside a sentence, the fallback found
\* it, and the reply alone is about to be returned
C11_Witness ==
    /\ pc[1] = "return" /\ expectedExact[1] = <<"OK">> /\ response[1] = <<"OK">>
    /\ primaryFinal[1] = <<"Hi", " ", "OK">> /\ fallbackHit[1]

\* ----------------------------------------------------------------------- C12
\* the final extraction contains the expected reply without being it
PrimaryContainsOnly(r) ==
    /\ primaryFinal[r] # NotYet
    /\ ~Falsy(expectedExact[r])
    /\ Includes(StrTrim(primaryFinal[r]), expectedExact[r])
    /\ StrTrim(primaryFinal[r]) # expectedExact[r]

C13_TimeoutAfterCeiling ==
    \A r \in Req :
        /\ pc[r] = "poll" => pollI[r] < MaxResponsePolls
        /\ pc[r] \in AfterCompletionPcs => sawReady[r]
        /\ (pc[r] = "throw" /\ thrown[r] = "ResponseTimeout") =>
              /\ pollI[r] = MaxResponsePolls
              /\ ~sawReady[r] /\ ~gotResponse[r]
              /\ stableI[r] = 0 /\ runLen[r] = 0 /\ lastText[r] = <<>>
              /\ primaryFinal[r] = NotYet /\ fallbackCalls[r] = 0

\* the turns were there on some poll but the page was busy on all 180
C13_Witness ==
    pc[1] = "throw" /\ thrown[1] = "ResponseTimeout" /\ sawBusy[1] /\ pollI[1] = MaxResponsePolls

\* ----------------------------------------------------------------------- C14
\* C14: the completion wait is satisfied on the first poll that reads
\* turnsNow >= turnsBefore + delta with the busy flag false: while it polls no
\* poll has read that, and when it is satisfied the poll just made has.
C14_SettlesAtFirstReadyPoll ==
    \A r \in Req :
        /\ pc[r] = "poll" => ~sawReady[r]
        /\ gotResponse[r] => sawReady[r]
        /\ (pc[r] = "throw" /\ thrown[r] = "ResponseTimeout") => ~sawReady[r]

\* turnsBefore is 4 on aistudio, the turns reached 6 while the page was busy,
\* and the wait was satisfied on poll 8 (the loop counter is 7)
C14_Witness ==
    /\ pc[1] = "stability" /\ stableI[1] = 0 /\ lastText[1] = <<>> /\ Platform(1) = "aistudio"
    /\ turnsBefore[1] = 4 /\ sawBusy[1] /\ gotResponse[1] /\ pollI[1] = 7

\* ----------------------------------------------------------------------- C15
\* C15 as stated: the stability wait stops as soon as three consecutive
\* identical non-empty samples have been read, so it never goes on polling
\* with such a run behind it.
C15_SettledAfterThreeSamples ==
    \A r \in Req : pc[r] = "stability" => runLen[r] < StableTarget

\* C15, amended: the stability wait stops as soon as a non-empty sample has
\* equalled the one before it three times in a row, that is after four
\* consecutive identical non-empty samples; short of that it stops only at
\* its ceiling.
C15_SettledAfterThreeRepeats ==
    \A r \in Req :
        /\ pc[r] = "stability" => runLen[r] <= StableTarget
        /\ pc[r] = "extract" =>
              IF stableCount[r] >= StableTarget
              THEN runLen[r] = StableTarget + 1
              ELSE runLen[r] <= StableTarget /\ stableI[r] = MaxStabilityPolls

\* three identical non-empty samples have been read and the wait goes on
C15_Witness ==
    pc[1] = "stability" /\ runLen[1] = StableTarget /\ stableI[1] = StableTarget

EndedUnstable(r) == pc[r] = "extract" /\ stableCount[r] < StableTarget

\* C17 as stated: when the stability wait ends at its ceiling the interaction
\* goes on with the last sample as its text.
C17_GoesOnWithLastSample ==
    [][\A r \in Req :
          (EndedUnstable(r) /\ pc'[r] \notin {"extract", "throw"}) =>
              primaryFinal'[r] = lastText[r]]_vars

\* C17, amended: the stability wait raises no failure of its own; when it
\* ends at its ceiling of 60 polls the interaction goes on to a final
\* extraction, a read of its own whose text (not the last sample) goes to
\* the validation.
C17_GoesOnWithFinalExtraction ==
    /\ [](\A r \in Req : EndedUnstable(r) => stableI[r] = MaxStabilityPolls)
    /\ [][\A r \in Req :
            /\ (pc[r] = "stability" /\ pc'[r] \notin {"stability", "extract"}) =>
                  (pc'[r] = "throw" /\ thrown'[r] = "PageError")
            /\ (EndedUnstable(r) /\ pc'[r] \notin {"extract", "throw"}) =>
                  /\ pc'[r] \in {"fallback", "stale", "exact", "probe", "return"}
                  /\ primaryFinal'[r] # NotYet
                  /\ response'[r] = primaryFinal'[r]]_vars

\* sixty polls were made and the last two samples differed
C17_Witness ==
    /\ EndedUnstable(1) /\ stableI[1] = MaxStabilityPolls
    /\ runLen[1] = 1 /\ lastText[1] = <<"Hello", " ", "there">>


\* --------------------------------------------------------------------- C18
\* the calls whose connection attempt is in flight
Connecting == {r \in Req : pc[r] = "connecting"}

\* C18: however many calls of ensureConnection overlap, from sends and from
\* readiness probes of either platform, at most one connection attempt is in
\* flight, and only while there is no browser; a call that finds an attempt
\* in flight waits for that attempt; and a connection is opened only when no
\* browser is connected, so that without a disconnect there is exactly one
\* for all the calls that got past connect()
C18_ConnectsOnce ==
    /\ [](/\ Cardinality(Connecting) <= 1
          /\ Connecting # {} => ~browser
          /\ (\E r \in Req : pc[r] = "awaitLock") => Connecting # {}
          /\ opened <= disconnects + 1
          /\ \A r \in Req : page[r] # 0 => (opened >= 1 /\ page[r] <= opened)
          /\ disconnects = 0 => \A r \in Req : page[r] \in {0, 1})
    /\ [][opened' # opened => (~browser /\ opened' = opened + 1 /\ browser')]_vars

\* a send and a probe overlap in connect(): one attempts, the other waits
C18_Witness ==
    \E r, q \in Req :
        /\ pc[r] = "connecting" /\ pc[q] = "awaitLock"
        /\ probing[r] # probing[q]

\* --------------------------------------------------------------------- C19
\* C19: a disconnect clears this.browser and the cached page of every
\* platform in one step, and a call of ensureConnection made after it never
\* gets a page of the session that was lost or of one before it: it gets
\* one of a session opened after the disconnect
C19_DisconnectClearsAll ==
    /\ [](\A r \in Req : page[r] # 0 => page[r] > since[r])
    /\ [][disconnects' # disconnects =>
            (~browser' /\ \A p \in Platforms : pages'[p] = 0)]_vars

\* a platform whose page was cached in the first session is served, after the
\* disconnect, by a page of the second
C19_Witness ==
    \E r \in Req :
        /\ disconnects = 1 /\ since[r] = 1
        /\ pc[r] = "front" /\ page[r] = 2 /\ pages[Platform(r)] = 2
        /\ \E q \in Req : q # r /\ pc[q] = "settled" /\ Platform(q) = Platform(r)

\* --------------------------------------------------------------------- C20
\* where the next step of a call is a call on the page it holds
PageOps == ThrowingPcs \cup {"fallback", "stale", "exact"}

\* C20: once the browser has disconnected, a call that holds a page of the
\* lost session makes no further call on it: an interaction that is between
\* its upload, polling and extraction steps takes none of them
C20_NoUseAfterDisconnect ==
    [][\A r \in Req : (Detached(r) /\ pc[r] \in PageOps) => pc'[r] = pc[r]]_vars


\* --------------------------------------------------------------------- C21
\* C21: ensureConnection returns the cached page only when the health check
\* it made in this call succeeded; when the check fails the cached page is
\* dropped and the call goes through connect(), and the page it then returns
\* is the one its own lookup resolved and stored
C21_CachedOnlyIfAlive ==
    [][\A r \in Req :
        /\ (pc[r] = "ensure" /\ pc'[r] = "front") =>
              (health'[r] = "ok" /\ page'[r] = pages[Platform(r)] /\ pages' = pages)
        /\ (pc[r] = "ensure" /\ health'[r] = "failed") =>
              (pages'[Platform(r)] = 0 /\ pc'[r] \in {"findTab", "awaitLock", "connecting", "throw"})
        /\ (pc[r] = "findTab" /\ pc'[r] = "front") =>
              (page'[r] # 0 /\ pages'[Platform(r)] = page'[r])]_vars

\* a call whose health check failed has come back with a page from its lookup
C21_Witness ==
    \E r \in Req : pc[r] = "front" /\ health[r] = "failed" /\ page[r] # 0
                    /\ pages[Platform(r)] = page[r]

\* --------------------------------------------------------------------- C22
\* C22: when no tab matches the platform's URL pattern ensureConnection fails
\* with the tab-not-found error and leaves no page cached for the platform;
\* the failure changes nothing else of the connection, so that a later call
\* finds the tab once it is there
C22_TabNotFoundCachesNothing ==
    /\ [](\A r \in Req : (pc[r] = "throw" /\ thrown[r] = "TabNotFound") =>
                              (pages[Platform(r)] = 0 /\ browser /\ connectLock = "resolved"))
    /\ [][\A r \in Req : (thrown[r] # "TabNotFound" /\ thrown'[r] = "TabNotFound") =>
              (pc[r] = "findTab" /\ pages' = pages /\ browser' = browser
               /\ connectLock' = connectLock)]_vars

\* a call failed for want of the tab, and a later call for the same platform
\* has its page
C22_Witness ==
    \E q, r \in Req :
        /\ q < r /\ Platform(q) = Platform(r)
        /\ pc[q] = "settled" /\ run[q] = Err("TabNotFound")
        /\ pc[r] = "front" /\ page[r] # 0 /\ pages[Platform(r)] = page[r]


\* --------------------------------------------------------------------- C23
\* the step of the interaction a location of fn belongs to: 1 connection (with
\* bringToFront, the blocker guard and the scroll), 2 pre-state snapshot,
\* 3 attachment upload, 4 setInput, 5 clickRun, 6 completion polling,
\* 7 stability polling, 8 final extraction, 9 validation; 0 outside fn and
\* 10 once fn has thrown
StepOf(l) ==
    CASE l \in {"ensure", "awaitLock", "connecting", "findTab", "front", "blockers", "scroll"} -> 1
      [] l \in {"turnsBefore", "preSend"} -> 2
      [] l = "upload" -> 3
      [] l = "setInput" -> 4
      [] l = "clickRun" -> 5
      [] l = "poll" -> 6
      [] l = "stability" -> 7
      [] l = "extract" -> 8
      [] l \in {"fallback", "stale", "exact", "probe", "return"} -> 9
      [] l = "throw" -> 10
      [] OTHER -> 0

\* C23: an interaction goes through its steps in the order connection,
\* snapshot, upload, setInput, clickRun, completion polling, stability
\* polling, final extraction, validation: it never goes back, it leaves a
\* step only for the next one (the upload is left out when there is no
\* attachment or no uploadImages) or by throwing, and it is in one of them only while no other request of its
\* key is
C23_StepsInOrder ==
    /\ [](\A r, q \in Req :
            (r # q /\ StepOf(pc[r]) \in 1..10 /\ StepOf(pc[q]) \in 1..10) =>
                Platform(r) # Platform(q))
    /\ [][\A r \in Req :
            LET a == StepOf(pc[r])
                b == StepOf(pc'[r])
            IN /\ (a = 0 /\ b # 0) => (pc[r] = "queued" /\ b = 1)
               /\ (a \in 1..9 /\ b # 0) =>
                     \/ b \in {a, a + 1, 10}
                     \/ /\ a = 2 /\ b = 4
                        /\ ~(request[r].hasImages /\ HasUploadImages(Platform(r)))
               /\ (a \in 1..8) => b # 0
               /\ (a = 10) => b \in {10, 0}]_vars

\* an interaction with an attachment has reached the end of its validation
\* while another request of its key waits
C23_Witness ==
    \E r, q \in Req :
        /\ pc[r] = "return" /\ request[r].hasImages
        /\ pc[q] = "queued" /\ Platform(q) = Platform(r)


\* --------------------------------------------------------------------- C24
\* fn has made no read of the reply yet
NothingRead(r) ==
    /\ pollI[r] = 0 /\ ~gotResponse[r] /\ stableI[r] = 0 /\ lastText[r] = <<>>
    /\ response[r] = Null /\ primaryFinal[r] = NotYet /\ fallbackCalls[r] = 0

\* C24: when setInput returns false the interaction throws the input error
\* at once, so clickRun is not called; when clickRun returns false it throws
\* the submit error at once, with no completion poll and no extraction; and
\* what fn throws is what its caller gets
C24_AdapterFailuresSurface ==
    /\ [](\A r \in Req : ~adapterOk[r] =>
              (pc[r] = "throw" /\ thrown[r] \in {"InputError", "SubmitError"} /\ NothingRead(r)))
    /\ [][\A r \in Req :
            /\ (thrown[r] # "InputError" /\ thrown'[r] = "InputError") =>
                  (pc[r] = "setInput" /\ ~adapterOk'[r])
            /\ (thrown[r] # "SubmitError" /\ thrown'[r] = "SubmitError") =>
                  (pc[r] = "clickRun" /\ ~adapterOk'[r])
            /\ (pc[r] = "throw" /\ pc'[r] # "throw") =>
                  (pc'[r] = "settled" /\ run'[r] = Err(thrown[r])
                   /\ (timer[r] = "armed" => caller'[r] = Err(thrown[r])))]_vars

\* clickRun has returned false and fn has thrown the submit error
C24_Witness ==
    \E r \in Req : pc[r] = "throw" /\ thrown[r] = "SubmitError" /\ ~adapterOk[r]


\* --------------------------------------------------------------------- C25
\* !response || String(response).trim().length === 0
EmptyReply(x) == Falsy(x) \/ Trim(x) = <<>>

\* the body of the page of call r holds one of the known notices
KnownShown(r) == \E i \in DOMAIN KnownBlockers : KnownBlockers[i] \in shows[r]

C26_SuccessCarriesText ==
    \A r \in Req : caller[r].kind = "ok" => ~EmptyReply(caller[r].val)


\* --------------------------------------------------------------------- C27
\* call r is past the validation of a final extraction that was not asked for
\* an exact reply and that differs from what the page gave before the send
PlainFreshPrimary(r) ==
    /\ pc[r] \in {"probe", "return", "throw"}
    /\ primaryFinal[r] # NotYet /\ pageBefore[r] # NotYet
    /\ Falsy(expectedExact[r])
    /\ StrTrim(primaryFinal[r]) # StrTrim(pageBefore[r])

\* C27 as stated: for such a call, on any platform, extractFallback was
\* called exactly when the primary text is empty or thoughts-only
C27_FallbackIffDisqualified ==
    \A r \in Req : PlainFreshPrimary(r) =>
        (fallbackCalls[r] > 0 <=>
            (EmptyReply(primaryFinal[r]) \/ LooksLikeThoughtsOnly(StrTrim(primaryFinal[r]))))

\* C27, corrected: for such a call extractFallback was called exactly when
\* the primary text is empty or, on aistudio, thoughts-only; thoughts-only
\* text on chatgpt is kept as the reply without any fallback
C27_FallbackIffEmptyOrAistudioThoughts ==
    \A r \in Req : PlainFreshPrimary(r) =>
        (fallbackCalls[r] > 0 <=>
            (EmptyReply(primaryFinal[r])
             \/ (Platform(r) = "aistudio" /\ LooksLikeThoughtsOnly(StrTrim(primaryFinal[r])))))

\* a non-empty thoughts-only text on aistudio has forced the fallback, and
\* the interaction returns
C27_Witness ==
    \E r \in Req : /\ PlainFreshPrimary(r) /\ pc[r] = "return"
                    /\ Platform(r) = "aistudio"
                    /\ primaryFinal[r] = <<"Thoughts", " ", "Hi">>
                    /\ fallbackCalls[r] = 1


\* --------------------------------------------------------------------- C28
\* request q was made before request r, and fn of q has not settled
Ahead(q, r) == q < r /\ pc[q] # "idle" /\ run[q].kind = "pending"

\* C28: a request is chained only after a request of its own platform, and a
\* queued request can start as soon as no earlier request of its own platform
\* is unsettled, whatever the requests of the other platform are doing
C28_KeysIndependent ==
    \A r \in Req :
        /\ (pc[r] # "idle" /\ prior[r] # 0) => Platform(prior[r]) = Platform(r)
        /\ (pc[r] = "queued" /\ \A q \in Req : Ahead(q, r) => Platform(q) # Platform(r))
              => ENABLED StartTask(r)

\* a request has started and is at work on its tab while a request made
\* before it on the other platform is still in the middle of its own steps
C28_Witness ==
    \E q, r \in Req : /\ Ahead(q, r) /\ Platform(q) # Platform(r)
                       /\ StepOf(pc[q]) \in 2..9 /\ StepOf(pc[r]) \in 2..9

\* --------------------------------------------------------------------- C29
\* C29: a queued request carrying a sessionId can start as soon as no earlier
\* request of its platform with the same sessionId is unsettled: requests
\* of other sessionIds do not hold it back
C29_SessionsIndependent ==
    \A r \in Req :
        (pc[r] = "queued"
         /\ \A q \in Req : Ahead(q, r) =>
               (Platform(q) # Platform(r) \/ request[q].sessionId # request[r].sessionId))
          => ENABLED StartTask(r)


\* --------------------------------------------------------------------- C30
\* request r is being made: send has just returned the race of withLock
Made(r) == pc[r] = "idle" /\ pc'[r] = "queued"

\* C30 as stated: the timer of a request with images is set to the images
\* timeout, and that of a request without images to the text timeout, on
\* every platform
C30_ImagesTimeoutEverywhere ==
    [][\A r \in Req : Made(r) =>
          /\ timer'[r] = "armed"
          /\ deadline'[r] = now + (IF request'[r].hasImages THEN LOCK_TIMEOUT_MS_IMAGES
                                                             ELSE LOCK_TIMEOUT_MS_TEXT)]_vars

\* C30, corrected: the timer of an aistudio request with images is set to the
\* images timeout (900000 ms), which is longer than the text timeout
\* (420000 ms) that every other request gets, a chatgpt request with images
\* included; the deadline stays as set while the timer is armed
C30_ImagesTimeoutOnAistudio ==
    /\ [](LOCK_TIMEOUT_MS_IMAGES = 900000 /\ LOCK_TIMEOUT_MS_TEXT = 420000)
    /\ [][\A r \in Req :
            /\ Made(r) =>
                  /\ timer'[r] = "armed"
                  /\ deadline'[r] = now + (IF request'[r].hasImages
                                               /\ request'[r].platform = "aistudio"
                                            THEN 900000 ELSE 420000)
            /\ (timer[r] = "armed" /\ timer'[r] = "armed") => deadline'[r] = deadline[r]]_vars

\* an aistudio request with images is uploading under the images timeout
C30_Witness ==
    \E r \in Req : /\ pc[r] = "upload" /\ request[r].hasImages /\ Platform(r) = "aistudio"
                    /\ timer[r] = "armed" /\ deadline[r] - now = LOCK_TIMEOUT_MS_IMAGES

\* --------------------------------------------------------------------- C31
\* C31: a request with images for a platform whose adapter has no uploadImages
\* never has its prompt submitted: it never gets past clickRun
C31_NoSubmitWithoutAttachments ==
    \A r \in Req :
        (pc[r] # "idle" /\ request[r].hasImages /\ ~HasUploadImages(Platform(r)))
          => pc[r] \notin {"poll", "stability", "extract", "fallback", "probe", "return"}

\* --------------------------------------------------------------------- C32
\* C32: cleaning a text that cleanExtractedLines returned gives that text back
C32_CleanIsIdempotent ==
    pc[1] = "recleaned" => response[1] = lastText[1]

\* --------------------------------------------------------------------- C33
\* the page part of an object returned by probePlatform
ProbePageOf(v) == IF Head(v) = "ok" THEN Tail(v) ELSE Tail(Tail(v))

\* C33: a probe that returns holds the page of its platform, and its ok is
\* true exactly when the URL matches, a visible input was found and no
\* blocker was detected; GET /ready answers 200 exactly when the aistudio
\* probe, and the chatgpt probe if the query asks for it, returned ok, and
\* 503 in every other case, a probe that threw included
C33_ReadyIffProbesOk ==
    /\ \A r \in Req : (probing[r] /\ pc[r] = "return") =>
          /\ page[r] # 0
          /\ Head(response[r]) = "ok" <=> ProbePageOf(response[r]) = <<"urlOk", "hasInput">>
    /\ ready.status = 200 <=>
          /\ ready.at = "done"
          /\ ProbeOk(caller[1])
          /\ ready.chatgptRequested => ProbeOk(caller[2])
    /\ ready.at = "done" <=> ready.status \in {200, 503}
    /\ ready.status = 0 <=> ready.at # "done"

\* GET /ready?chatgpt=true has answered 200 after two probes that were ok
C33_Witness ==
    /\ ready.at = "done" /\ ready.chatgptRequested /\ ready.status = 200
    /\ ProbeOk(caller[1]) /\ ProbeOk(caller[2])

\* --------------------------------------------------------------------- C34
\* C34: a call of ensureConnection that finds no browser and no connection
\* attempt in flight starts an attempt of its own, whatever became of the
\* attempts before it
C34_FailedAttemptDoesNotPoison ==
    [][\A r \in Req :
          (pc[r] = "ensure" /\ pc'[r] # "ensure" /\ ~browser /\ ~AttemptInFlight(connectLock))
            => (pc'[r] = "connecting" /\ connectLock' = "pending")]_vars

\* --------------------------------------------------------------------- C35
\* C35: a task still queued when the timer of its call fires stays queued:
\* its caller has the lock timeout for good, the task itself is untouched, it
\* leaves the queue only by beginning, which it can do as soon as the task
\* it was chained after settles, and from then on it always has a next step
C35_TimedOutTaskStillRuns ==
    /\ [](\A r \in Req :
            /\ (timer[r] = "fired" /\ pc[r] = "queued") =>
                  /\ caller[r] = Err("LockTimeout") /\ run[r].kind = "pending"
                  /\ TailSettled(prior[r]) => ENABLED StartTask(r)
            /\ (timer[r] = "fired" /\ Running(r)) => ENABLED Step(r, QueueWorld))
    /\ [][\A r \in Req :
            /\ (pc[r] = "queued" /\ pc'[r] # "queued") => pc'[r] = "ensure"
            /\ (caller[r] = Err("LockTimeout")) => caller'[r] = caller[r]]_vars

\* a text request waited behind an image request until after that one's
\* timer fired, so its own, shorter timer fired while it was queued; it has
\* since begun, set its input and submitted, and is polling
C35_Witness ==
    \E q, r \in Req :
        /\ Before(q, r) /\ request[q].hasImages /\ ~request[r].hasImages
        /\ timer[q] = "fired" /\ timer[r] = "fired"
        /\ caller[r] = Err("LockTimeout")
        /\ pc[r] = "poll"

\* --------------------------------------------------------------------- C36
\* an interaction of platform p is between its start and its settlement
InFlight(p) == \E r \in Req : ~probing[r] /\ Running(r) /\ Platform(r) = p

C37_BlockedFailsEarly ==
    \A r \in Req :
        blockers[r] # {}
          => /\ Platform(r) = "aistudio"
             /\ pc[r] = "throw" /\ thrown[r] = "Blocked"
             /\ pageBefore[r] = NotYet /\ primaryFinal[r] = NotYet

\* C37: the failure of the guard settles run, so the request chained after it
\* is not held back, and the caller gets the platform-blocked failure
C37_BlockedReleasesLock ==
    [][\A r \in Req :
          (blockers[r] # {} /\ pc'[r] # pc[r])
            => /\ pc'[r] = "settled"
               /\ run'[r] = Err("Blocked")
               /\ caller'[r] = Err("Blocked")
               /\ TailSettled(r)']_vars

C37_BlockedInteraction == []C37_BlockedFailsEarly /\ C37_BlockedReleasesLock

C37_Witness ==
    \E r \in Req :
        /\ pc[r] = "throw" /\ thrown[r] = "Blocked"
        /\ blockers[r] = {"Something went wrong"}
        /\ request[r].hasImages


\* --------------------------------------------------------------------- C38
\* the staleness check of call r fired and its forced fallback gave empty
\* text or the text the check started from
StaleNotBettered(r) ==
    /\ fallbackStale[r] # NotYet
    /\ preSendExtract[r] # <<>>
    /\ StrTrim(fallbackStale[r]) \in {<<>>, preSendExtract[r]}

\* no failure is raised for staleness: the only failure left to such an
\* interaction is the expectation mismatch of exact-token mode
NoStaleFailure(r) ==
    /\ pc[r] \in {"exact", "return", "throw"}
    /\ pc[r] = "throw" => thrown[r] = "ExactMismatch"

\* C38 as stated: an interaction whose staleness check fired and whose
\* fallback gave empty or the same text raises no failure for staleness and,
\* when it returns, returns the text equal to the pre-send snapshot.
C38_StaleTextReturned_AsStated ==
    \A r \in Req :
        StaleNotBettered(r)
          => /\ NoStaleFailure(r)
             /\ pc[r] = "return" => StrTrim(response[r]) = preSendExtract[r]

\* C38, amended: such an interaction raises no failure for staleness and,
\* when it returns, returns the text equal to the pre-send snapshot, or the
\* expected token that exact-token validation put in its place.
C38_StaleTextReturned ==
    \A r \in Req :
        StaleNotBettered(r)
          => /\ NoStaleFailure(r)
             /\ pc[r] = "return"
                  => \/ StrTrim(response[r]) = preSendExtract[r]
                     \/ /\ ~Falsy(expectedExact[r]) /\ fallbackHit[r]
                        /\ preSendExtract[r] # expectedExact[r]
                        /\ response[r] = expectedExact[r]

\* a plain request returns the text it saw before sending after a fallback
\* that found nothing
C38_Witness ==
    \E r \in Req :
        /\ pc[r] = "return" /\ Falsy(expectedExact[r])
        /\ fallbackStale[r] = Null
        /\ preSendExtract[r] = <<"Hi">> /\ response[r] = <<"Hi">>


SamplesNow(r) ==
    /\ pc[r] = "stability" /\ pc'[r] # "throw"
    /\ (pc'[r] # pc[r] \/ stableI'[r] # stableI[r])

\* the wait ends only because it ran all its polls
OnlyAtCeiling(r) == pc'[r] = "extract" => stableI'[r] = MaxStabilityPolls

\* C40: while the last sample is empty or null nothing is counted towards
\* stability; an iteration that reads an empty or null sample leaves the count
\* and the run of identical samples at zero and ends the wait only at its
\* ceiling, and the non-empty sample after an empty one starts a new run,
\* whatever was read before the empty one
C40_EmptySamplesDoNotCount ==
    /\ [](\A r \in Req : (pc[r] \in {"stability", "extract"} /\ Falsy(lastText[r]))
                            => (stableCount[r] = 0 /\ runLen[r] = 0))
    /\ [][\A r \in Req :
             /\ (SamplesNow(r) /\ Falsy(lastText'[r]))
                  => (stableCount'[r] = 0 /\ runLen'[r] = 0 /\ OnlyAtCeiling(r))
             /\ (SamplesNow(r) /\ Falsy(lastText[r]) /\ ~Falsy(lastText'[r]))
                  => (stableCount'[r] = 0 /\ runLen'[r] = 1 /\ OnlyAtCeiling(r))]_vars

\* the wait ran all its polls and the last one read null
C40_Witness ==
    \E r \in Req :
        /\ pc[r] = "extract" /\ stableI[r] = MaxStabilityPolls
        /\ lastText[r] = Null /\ stableCount[r] = 0 /\ runLen[r] = 0

====
